---- MODULE Spec2Model ----
(***************************************************************************)
(* Model of the MCP tool server: the three search tools                    *)
(* (TwitterSearchTool, TwitterSearchLiteTool, YouTubeSearchTool), the tool *)
(* loader load_tools_from_directory and the two server entry points.       *)
(*                                                                         *)
(* Representation.                                                         *)
(*  - A Python str is a sequence of one-character strings, so that         *)
(*    len(), strip(), slicing and concatenation are computed.              *)
(*  - An Optional value is a sequence of length 0 (None) or 1.             *)
(*  - json.dumps(d) is modelled by the record d it serialises; a key is    *)
(*    present in the JSON object iff it is in the record's DOMAIN.         *)
(*  - An exception is a record [type, msg]; a computation that may raise   *)
(*    yields [exc |-> <<e>>, ...] or [exc |-> <<>>, val |-> v].            *)
(***************************************************************************)
EXTENDS Integers, Sequences, FiniteSets, TLC

VARIABLES
    pc,              \* "idle" | "done": position of the invocation harness
    tool,            \* which tool ran: "none" | "twitter" | "lite" | "youtube"
    topic_or_keywords, \* the query field of the tool instance
    max_results,     \* the max_results field
    min_engagement_threshold, \* Optional[int] field
    credential,      \* Optional[str]: os.getenv of the tool's credential variable
    observed,        \* the provider behaviour the invocation observed (NoCall if none)
    outcome,         \* what the invocation produced
    client_created,  \* whether a provider client was constructed
    requests,        \* the provider requests issued, in order
    now,             \* Optional: the instant datetime.now() gave the invocation
    entry,           \* server: "none" | "main" | "uvicorn" | "load"
    fs,              \* server: the files on disk, in listing order
    tools_dir,       \* server: config.tools_dir
    scan,            \* server: what the last scan(s) produced
    process,         \* server: [state, status, printed, mcp_tools]
    calls,           \* mock tools: the invocations made, [tool, input, environ, result]
    os_environ,      \* concurrent runs: os.environ of the serving process
    threads,         \* concurrent runs: per invocation its arguments, its position,
                     \*   what the provider answered it and what it returned
    frames           \* concurrent runs: the instance fields and locals of each run()

vars == << pc, tool, topic_or_keywords, max_results, min_engagement_threshold,
           credential, observed, outcome, client_created, requests, now,
           entry, fs, tools_dir, scan, process, calls, os_environ, threads, frames >>

searchVars == << pc, tool, topic_or_keywords, max_results, min_engagement_threshold,
                 credential, observed, outcome, client_created, requests, now >>

serverVars == << entry, fs, tools_dir, scan, process >>

mockVars == << calls >>

concurrentVars == << os_environ, threads, frames >>

----------------------------------------------------------------------------
(* Bounds of the model *)

\* short queries are all strings over QueryAlphabet up to this length
MaxQueryLen == 1
\* provider responses are all record lists up to this length (plus named ones)
MaxRecs == 2
\* the modelled disk holds at most this many files
MaxFiles == 2
\* this many invocations of the mock tools are kept side by side
MaxCalls == 2
\* this many invocations of the search tools run at the same time
MaxInvocations == 2

----------------------------------------------------------------------------
(* Python built-ins *)

None == << >>
Some(v) == << v >>
IsNone(o) == o = << >>
Val(o) == o[1]

Min(a, b) == IF a <= b THEN a ELSE b

\* s[:n]
Prefix(s, n) == SubSeq(s, 1, Min(n, Len(s)))

\* str.isspace() of one character
IsSpace(c) == c \in {" ", "\t", "\n"}

RECURSIVE LStrip(_)
LStrip(s) == IF s # << >> /\ IsSpace(Head(s)) THEN LStrip(Tail(s)) ELSE s

RECURSIVE RStrip(_)
RStrip(s) ==
    IF s # << >> /\ IsSpace(s[Len(s)]) THEN RStrip(SubSeq(s, 1, Len(s) - 1)) ELSE s

\* str.strip()
Strip(s) == RStrip(LStrip(s))

\* `sub in s` for strings
Contains(s, sub) ==
    \E i \in 0..(Len(s) - Len(sub)) : SubSeq(s, i + 1, i + Len(sub)) = sub

\* dict.get(k, d)
Get(d, k, default) == IF k \in DOMAIN d THEN d[k] ELSE default

\* a string of n copies of c
Repeat(c, n) == [i \in 1..n |-> c]

RECURSIVE SeqsUpTo(_, _)
SeqsUpTo(S, n) ==
    IF n = 0 THEN {<< >>}
    ELSE LET shorter == SeqsUpTo(S, n - 1)
         IN shorter \cup {Append(s, x) : s \in {t \in shorter : Len(t) = n - 1}, x \in S}

\* list.sort(key=total_engagement, reverse=True): stable, descending
Key(item) == item.engagement_metrics.total_engagement

RECURSIVE InsertDesc(_, _)
InsertDesc(x, s) ==
    IF s = << >> THEN << x >>
    ELSE IF Key(Head(s)) >= Key(x) THEN << Head(s) >> \o InsertDesc(x, Tail(s))
    ELSE << x >> \o s

\* list.sort(key=total_engagement) with reverse=True left out
RECURSIVE InsertAsc(_, _)
InsertAsc(x, s) ==
    IF s = << >> THEN << x >>
    ELSE IF Key(Head(s)) <= Key(x) THEN << Head(s) >> \o InsertAsc(x, Tail(s))
    ELSE << x >> \o s

RECURSIVE SortAsc(_)
SortAsc(s) ==
    IF s = << >> THEN << >>
    ELSE InsertAsc(s[Len(s)], SortAsc(SubSeq(s, 1, Len(s) - 1)))

RECURSIVE SortDesc(_)
SortDesc(s) ==
    IF s = << >> THEN << >>
    ELSE InsertDesc(s[Len(s)], SortDesc(SubSeq(s, 1, Len(s) - 1)))

\* [x for x in s if x.total_engagement >= t]
RECURSIVE FilterAtLeast(_, _)
FilterAtLeast(s, t) ==
    IF s = << >> THEN << >>
    ELSE IF Key(Head(s)) >= t THEN << Head(s) >> \o FilterAtLeast(Tail(s), t)
    ELSE FilterAtLeast(Tail(s), t)

\* exceptions
Exc(type, msg) == [type |-> type, msg |-> msg]
Raised(e) == [exc |-> Some(e)]
Ok(v) == [exc |-> None, val |-> v]

----------------------------------------------------------------------------
(* Inputs of an invocation and behaviours of the providers *)

QueryAlphabet == {" ", "a"}

\* "ai lang:es": a query that already carries an advanced operator
QueryWithLang == << "a", "i", " ", "l", "a", "n", "g", ":", "e", "s" >>

\* 84 characters, the operator 'lang:' starting at the 78th
QueryWithLateLang ==
    Repeat("a", 76) \o << " ", "l", "a", "n", "g", ":", "e", "s" >>

\* the lengths at which _enhance_query, _create_lite_query and the two
\* _validate_inputs change their answer
QueryLengths == {80, 81, 100, 101, 492, 493, 504, 505, 512, 513}

Queries ==
    SeqsUpTo(QueryAlphabet, MaxQueryLen)
        \cup {<< " ", "\t" >>, << "a", "i" >>, QueryWithLang, QueryWithLateLang}
        \cup { Repeat("a", n) : n \in QueryLengths }

MaxResultsValues == {9, 10, 11, 25, 26, 50, 51, 100, 101}

Thresholds == {None, Some(-1), Some(0), Some(10), Some(21)}

\* os.getenv(...): unset, set to the empty string, set to a token
Credentials == {None, Some(""), Some("token")}

\* public_metrics of a tweet as the provider sends it: any subset of the four
\* counters (a missing one counts as 0), or None (the code reads it as {})
TweetMetrics ==
    { << >>,
      [like_count |-> 5],
      [like_count |-> 10, retweet_count |-> 4, reply_count |-> 3, quote_count |-> 3],
      [like_count |-> 30, retweet_count |-> 20] }

\* statistics of a video: the provider sends each counter as a string
VideoStatistics ==
    { << >>,
      [viewCount |-> << "5" >>],
      [viewCount |-> << "1", "5" >>, likeCount |-> << "3" >>, commentCount |-> << "2" >>],
      [viewCount |-> << "4", "0" >>, likeCount |-> << "1", "0" >>],
      [viewCount |-> << "n", "/", "a" >>] }

\* the records of a response: record i has id i and the i-th metrics
Records(ms) == [i \in DOMAIN ms |-> [id |-> i, metrics |-> ms[i]]]

\* more records than any max_results of 10 or 11 asks for
LongMetrics(S, n) == {[i \in 1..n |-> m] : m \in S}

TweetResponses ==
    { Records(ms) :
        ms \in SeqsUpTo(TweetMetrics, MaxRecs)
                 \cup LongMetrics(TweetMetrics \ {<< >>}, 12)
                 \cup {<< [like_count |-> 5], [like_count |-> 30, retweet_count |-> 20],
                          [like_count |-> 10, retweet_count |-> 4, reply_count |-> 3,
                           quote_count |-> 3] >>} }

\* search_recent_tweets either answers or raises
TwitterBehaviours ==
    { [kind |-> "ok", data |-> d] : d \in TweetResponses }
        \cup { [kind |-> "raise", exc |-> e] :
                 e \in { Exc("Unauthorized", "401 Unauthorized"),
                         Exc("TooManyRequests", "429 Too Many Requests"),
                         Exc("HTTPException", "503 Service Unavailable"),
                         Exc("ConnectionError", "connection reset") } }

\* search().list(...).execute(): the ids of the videos found
SearchResponses == { [i \in 1..n |-> [videoId |-> i]] : n \in {0, 1, MaxRecs, 12} }

\* videos().list(...).execute(): the provider's records for those ids
VideoResponses ==
    { Records(ms) :
        ms \in SeqsUpTo(VideoStatistics, MaxRecs)
                 \cup LongMetrics({[viewCount |-> << "5" >>]}, 12)
                 \cup {<< [viewCount |-> << "5" >>],
                          [viewCount |-> << "4", "0" >>, likeCount |-> << "1", "0" >>],
                          [viewCount |-> << "1", "5" >>, likeCount |-> << "3" >>,
                           commentCount |-> << "2" >>] >>} }

\* the body of an HttpError: what e.content holds
HttpBodies ==
    { "json_error_message",      \* {"error": {"message": "quotaExceeded"}}
      "json_no_error",           \* {}
      "json_error_not_object",   \* {"error": "forbidden"}
      "json_not_object",         \* ["forbidden"]
      "not_json",                \* <html>502 Bad Gateway</html>
      "not_utf8" }               \* bytes that are not UTF-8

HttpExc(body) == [type |-> "HttpError", msg |-> "<HttpError 403>", body |-> body]

YouTubeExceptions ==
    { HttpExc(b) : b \in HttpBodies }
        \cup { [type |-> "ConnectionError", msg |-> "connection reset", body |-> ""] }

YouTubeSearchBehaviours ==
    { [kind |-> "ok", items |-> r] : r \in SearchResponses }
        \cup { [kind |-> "raise", exc |-> e] : e \in YouTubeExceptions }

YouTubeVideoBehaviours ==
    { [kind |-> "ok", items |-> r] : r \in VideoResponses }
        \cup { [kind |-> "raise", exc |-> e] : e \in YouTubeExceptions }

NoCall == [kind |-> "nocall"]

\* datetime.now(timezone.utc): an instant is its whole seconds since an
\* epoch and its microseconds; one value on a whole second, one between
ClockValues == { [s |-> 2000000, us |-> 0], [s |-> 2000000, us |-> 250000] }

\* the clock is read only by an invocation that gets as far as the window
ClockReads(early) == IF IsNone(early) THEN { Some(c) : c \in ClockValues } ELSE {None}

\* instant - timedelta(seconds=n)
MinusSeconds(instant, n) == [instant EXCEPT !.s = @ - n]

\* timedelta(days=d, hours=h) in seconds
Timedelta(d, h) == d * 86400 + h * 3600

\* strftime('%Y-%m-%dT%H:%M:%S.%fZ'): date and time of day, then the six
\* digits of the microseconds
FormatMicros(instant) == [date_time |-> instant.s, fraction |-> << instant.us >>]

\* strftime('%Y-%m-%dT%H:%M:%SZ'): the microseconds are not written
FormatSeconds(instant) == [date_time |-> instant.s, fraction |-> << >>]

----------------------------------------------------------------------------
(* TwitterSearchTool *)

LangEn == << " ", "l", "a", "n", "g", ":", "e", "n" >>
NoRetweets == << " ", "-", "i", "s", ":", "r", "e", "t", "w", "e", "e", "t" >>

\* _validate_inputs testing `not self.topic_or_keywords` alone, without strip()
TwitterValidate_NoStrip(q, m, t) ==
    IF q = << >>
        THEN Some(Exc("ValueError", "topic_or_keywords cannot be empty"))
    ELSE IF Len(q) > 512
        THEN Some(Exc("ValueError",
                 "topic_or_keywords must be under 512 characters for Basic API access"))
    ELSE IF ~(10 <= m /\ m <= 100)
        THEN Some(Exc("ValueError", "max_results must be between 10 and 100"))
    ELSE IF ~IsNone(t) /\ Val(t) < 0
        THEN Some(Exc("ValueError", "min_engagement_threshold must be a positive integer"))
    ELSE None

\* _validate_inputs: the exception it raises, if any
TwitterValidate(q, m, t) ==
    IF q = << >> \/ Len(Strip(q)) = 0
        THEN Some(Exc("ValueError", "topic_or_keywords cannot be empty"))
    ELSE IF Len(q) > 512
        THEN Some(Exc("ValueError",
                 "topic_or_keywords must be under 512 characters for Basic API access"))
    ELSE IF ~(10 <= m /\ m <= 100)
        THEN Some(Exc("ValueError", "max_results must be between 10 and 100"))
    ELSE IF ~IsNone(t) /\ Val(t) < 0
        THEN Some(Exc("ValueError", "min_engagement_threshold must be a positive integer"))
    ELSE None

\* _enhance_query without its two length tests
EnhanceQuery_NoLimit(q) == q \o LangEn \o NoRetweets

\* _enhance_query
EnhanceQuery(q) ==
    IF Len(q \o LangEn \o NoRetweets) <= 512 THEN q \o LangEn \o NoRetweets
    ELSE IF Len(q \o LangEn) <= 512 THEN q \o LangEn
    ELSE q

\* the request of _search_tweets
TwitterRequest(query, m, start_time, end_time) ==
    [api |-> "search_recent_tweets", query |-> query,
     start_time |-> FormatMicros(start_time), end_time |-> FormatMicros(end_time),
     max_results |-> Min(100, m)]

\* Step 5 of run without the 30 seconds buffer
TwitterEndTime_NoMargin(clock) == clock

\* Step 5 of run: end_time = datetime.now(timezone.utc) - timedelta(seconds=30)
TwitterEndTime(clock) == MinusSeconds(clock, 30)

\* start_time = end_time - timedelta(days=6, hours=12)
TwitterStartTime(end_time) == MinusSeconds(end_time, Timedelta(6, 12))

\* _search_tweets: every exception of the call is caught inside (line 213) and
\* the list built so far, which is empty, is returned
SearchTweets(prov) ==
    IF prov.kind = "raise" THEN << >>
    ELSE IF prov.data = << >> THEN << >>
    ELSE [i \in DOMAIN prov.data |->
            [id |-> prov.data[i].id,
             public_metrics |-> prov.data[i].metrics]]

\* one tweet of _process_tweets
ProcessTweet(tweet_data) ==
    LET metrics == tweet_data.public_metrics
        likes == Get(metrics, "like_count", 0)
        retweets == Get(metrics, "retweet_count", 0)
        replies == Get(metrics, "reply_count", 0)
        quotes == Get(metrics, "quote_count", 0)
    IN [id |-> tweet_data.id,
        engagement_metrics |->
            [likes |-> likes, retweets |-> retweets, replies |-> replies,
             quotes |-> quotes,
             total_engagement |-> likes + retweets + replies + quotes]]

\* _process_tweets: score every tweet, then sort by score, descending
ProcessTweets(tweets_data) ==
    SortDesc([i \in DOMAIN tweets_data |-> ProcessTweet(tweets_data[i])])

\* Step 8 of run: `if self.min_engagement_threshold:` is false for None and for 0
TwitterFilter(processed, t) ==
    IF ~IsNone(t) /\ Val(t) # 0 THEN FilterAtLeast(processed, Val(t)) ELSE processed

\* Step 9 of run
TwitterLimit(processed, m) == Prefix(processed, m)

TwitterMetadata(q, t) ==
    [time_range |-> "last_6.5_days", enhanced_query |-> EnhanceQuery(q),
     engagement_threshold |-> t]

\* the except clauses of run, chosen by the type of the exception
TwitterHandler(e, q, t) ==
    IF e.type = "TooManyRequests" THEN
        [error |-> "Twitter API rate limit exceeded. Please wait 15 minutes before trying again.",
         rate_limit_info |-> e.msg, query |-> q,
         search_metadata |-> TwitterMetadata(q, t),
         total_results |-> 0, tweets |-> << >>]
    ELSE IF e.type = "Unauthorized" THEN
        [error |-> "Twitter API authentication failed. Please check your Bearer Token.",
         query |-> q, total_results |-> 0, tweets |-> << >>]
    ELSE
        [error |-> "An error occurred: " \o e.msg, query |-> q,
         search_metadata |-> TwitterMetadata(q, t),
         total_results |-> 0, tweets |-> << >>]

Returned(envelope) == [kind |-> "returned", envelope |-> envelope]
Propagated(e) == [kind |-> "raised", exc |-> e]

\* Steps 1 and 2 of run without the test of the bearer token
TwitterEarly_NoCredentialCheck(q, m, t, token) ==
    LET invalid == TwitterValidate(q, m, t) IN
    IF ~IsNone(invalid) THEN Some(TwitterHandler(Val(invalid), q, t))
    ELSE None

\* Steps 1 and 2 of run: the envelope returned before any client exists
TwitterEarly(q, m, t, token) ==
    LET invalid == TwitterValidate(q, m, t) IN
    IF ~IsNone(invalid) THEN Some(TwitterHandler(Val(invalid), q, t))
    ELSE IF IsNone(token) \/ Val(token) = "" THEN
        Some([error |-> "Twitter Bearer Token not found. Please set TWITTER_BEARER_TOKEN in your .env file.",
              query |-> q, total_results |-> 0, tweets |-> << >>])
    ELSE None

\* run: [outcome, client, requests]
TwitterRun(q, m, t, token, prov, clock) ==
    LET early == TwitterEarly(q, m, t, token) IN
    IF ~IsNone(early) THEN
        [outcome |-> Returned(Val(early)), client |-> FALSE, requests |-> << >>]
    ELSE
        LET enhanced_query == EnhanceQuery(q)
            end_time == TwitterEndTime(Val(clock))
            start_time == TwitterStartTime(end_time)
            tweets_data == SearchTweets(prov)
            processed_tweets == TwitterFilter(ProcessTweets(tweets_data), t)
            final_tweets == TwitterLimit(processed_tweets, m)
        IN [outcome |-> Returned(
                [query |-> q, total_results |-> Len(final_tweets),
                 search_metadata |-> TwitterMetadata(q, t),
                 tweets |-> final_tweets]),
            client |-> TRUE,
            requests |-> << TwitterRequest(enhanced_query, m, start_time, end_time) >>]

----------------------------------------------------------------------------
(* TwitterSearchLiteTool *)

\* _validate_inputs with the upper limit of the full tool, 100, for 25
LiteValidate_WideRange(q, m, t) ==
    IF Strip(q) = << >>
        THEN Some(Exc("ValueError", "Topic or keywords cannot be empty"))
    ELSE IF m < 10 \/ m > 100
        THEN Some(Exc("ValueError",
                 "max_results must be between 10 and 25 for lite version (API minimum is 10)"))
    ELSE IF Len(q) > 100
        THEN Some(Exc("ValueError",
                 "Query too long for lite version. Keep under 100 characters."))
    ELSE None

\* _validate_inputs: empty query, range of max_results, length; the threshold
\* is not examined
LiteValidate(q, m, t) ==
    IF Strip(q) = << >>
        THEN Some(Exc("ValueError", "Topic or keywords cannot be empty"))
    ELSE IF m < 10 \/ m > 25
        THEN Some(Exc("ValueError",
                 "max_results must be between 10 and 25 for lite version (API minimum is 10)"))
    ELSE IF Len(q) > 100
        THEN Some(Exc("ValueError",
                 "Query too long for lite version. Keep under 100 characters."))
    ELSE None

LiteOperators ==
    { << "l", "a", "n", "g", ":" >>, << "-", "i", "s", ":" >>,
      << "f", "r", "o", "m", ":" >>, << "t", "o", ":" >> }

\* _create_lite_query
CreateLiteQuery(q) ==
    LET query == Prefix(Strip(q), 80)
    IN IF ~(\E op \in LiteOperators : Contains(query, op)) THEN query \o LangEn
       ELSE query

\* _search_tweets_lite: every exception of the call is caught inside (line 183)
SearchTweetsLite(prov) ==
    IF prov.kind = "raise" THEN << >>
    ELSE IF prov.data = << >> THEN << >>
    ELSE [i \in DOMAIN prov.data |->
            [id |-> prov.data[i].id,
             public_metrics |-> prov.data[i].metrics]]

\* _process_tweets_lite
ProcessTweetsLite(tweets_data) ==
    SortDesc([i \in DOMAIN tweets_data |-> ProcessTweet(tweets_data[i])])

\* Step 8 of run: `if self.min_engagement_threshold:`
LiteFilter(processed, t) ==
    IF ~IsNone(t) /\ Val(t) # 0 THEN FilterAtLeast(processed, Val(t)) ELSE processed

\* the except clauses of run
LiteHandler(e, q, t) ==
    IF e.type = "TooManyRequests" THEN
        [error |-> "Twitter API rate limit exceeded. Please wait 15 minutes before trying again.",
         rate_limit_info |-> "Your account may have very restrictive rate limits due to quota restrictions.",
         query |-> q, quota_used |-> 0,
         search_metadata |->
            [time_range |-> "last_3_days", lite_query |-> CreateLiteQuery(q),
             engagement_threshold |-> t],
         total_results |-> 0, tweets |-> << >>]
    ELSE IF e.type = "Unauthorized" THEN
        [error |-> "Twitter API authentication failed. Please check your Bearer Token.",
         query |-> q, quota_used |-> 0, total_results |-> 0, tweets |-> << >>]
    ELSE
        [error |-> "Unexpected error: " \o e.msg,
         query |-> q, quota_used |-> 0, total_results |-> 0, tweets |-> << >>]

\* Steps 1 and 2 of run: the envelope returned before any client exists
LiteEarly(q, m, t, token) ==
    LET invalid == LiteValidate(q, m, t) IN
    IF ~IsNone(invalid) THEN Some(LiteHandler(Val(invalid), q, t))
    ELSE IF IsNone(token) \/ Val(token) = "" THEN
        Some([error |-> "Twitter Bearer Token not found. Please set TWITTER_BEARER_TOKEN in your .env file.",
              query |-> q, quota_used |-> 0, total_results |-> 0, tweets |-> << >>])
    ELSE None

\* Step 5 of run: end_time = datetime.now(timezone.utc) - timedelta(seconds=30)
LiteEndTime(clock) == MinusSeconds(clock, 30)

\* start_time = end_time - timedelta(days=3)
LiteStartTime(end_time) == MinusSeconds(end_time, Timedelta(3, 0))

\* run: there is no step that cuts the list to max_results
LiteRun(q, m, t, token, prov, clock) ==
    LET early == LiteEarly(q, m, t, token) IN
    IF ~IsNone(early) THEN
        [outcome |-> Returned(Val(early)), client |-> FALSE, requests |-> << >>]
    ELSE
        LET query == CreateLiteQuery(q)
            end_time == LiteEndTime(Val(clock))
            start_time == LiteStartTime(end_time)
            tweets_data == SearchTweetsLite(prov)
            processed_tweets == LiteFilter(ProcessTweetsLite(tweets_data), t)
        IN [outcome |-> Returned(
                [query |-> q, quota_used |-> Len(tweets_data),
                 total_results |-> Len(processed_tweets),
                 search_metadata |->
                    [time_range |-> "last_3_days", lite_query |-> query,
                     engagement_threshold |-> t,
                     quota_warning |-> "Used " \o ToString(Len(tweets_data))
                                          \o " posts from your monthly quota"],
                 tweets |-> processed_tweets]),
            client |-> TRUE,
            requests |-> << TwitterRequest(query, m, start_time, end_time) >>]

----------------------------------------------------------------------------
(* YouTubeSearchTool *)

\* the Field constraints of the class: max_results ge=10, le=50 and
\* min_engagement_threshold ge=0 reject the instance before run exists
YouTubeFieldsValid(m, t) ==
    /\ 10 <= m /\ m <= 50
    /\ IF IsNone(t) THEN TRUE ELSE Val(t) >= 0

Digits == << "0", "1", "2", "3", "4", "5", "6", "7", "8", "9" >>
IsDigit(c) == \E d \in DOMAIN Digits : Digits[d] = c
DigitValue(c) == (CHOOSE d \in DOMAIN Digits : Digits[d] = c) - 1

RECURSIVE DecimalValue(_)
DecimalValue(s) ==
    IF s = << >> THEN 0
    ELSE 10 * DecimalValue(SubSeq(s, 1, Len(s) - 1)) + DigitValue(s[Len(s)])

\* int(x): of a decimal string its value, of another string a ValueError
ParseInt(s) ==
    IF s # << >> /\ \A i \in DOMAIN s : IsDigit(s[i]) THEN Ok(DecimalValue(s))
    ELSE Raised(Exc("ValueError", "invalid literal for int()"))

\* int(statistics.get(k, 0))
Statistic(statistics, k) ==
    IF k \in DOMAIN statistics THEN ParseInt(statistics[k]) ELSE Ok(0)

\* _process_video: the record, or None when anything in it raised
ProcessVideo(video) ==
    LET views == Statistic(video.metrics, "viewCount")
        likes == Statistic(video.metrics, "likeCount")
        comments == Statistic(video.metrics, "commentCount")
    IN IF ~IsNone(views.exc) \/ ~IsNone(likes.exc) \/ ~IsNone(comments.exc) THEN None
       ELSE Some([id |-> video.id,
                  engagement_metrics |->
                     [views |-> views.val, likes |-> likes.val,
                      comments |-> comments.val,
                      total_engagement |-> views.val + likes.val + comments.val]])

\* Step 8 of run: keep the videos _process_video returned a record for
RECURSIVE ProcessVideos(_)
ProcessVideos(items) ==
    IF items = << >> THEN << >>
    ELSE LET video_info == ProcessVideo(Head(items))
         IN (IF IsNone(video_info) THEN << >> ELSE << Val(video_info) >>)
                \o ProcessVideos(Tail(items))

\* _sort_and_filter_videos: filter when the threshold is not None, then sort
SortAndFilterVideos(videos, t) ==
    SortDesc(IF ~IsNone(t) THEN FilterAtLeast(videos, Val(t)) ELSE videos)

\* Step 10 of run
YouTubeLimit(videos, m) == Prefix(videos, m)

\* the search request without the cap of 50 on maxResults
YouTubeSearchRequest_Uncapped(q, m, start_time, end_time) ==
    [api |-> "search.list", query |-> q, max_results |-> m * 2,
     start_time |-> FormatSeconds(start_time), end_time |-> FormatSeconds(end_time)]

\* the request of Step 5: publishedAfter is start_time, publishedBefore end_time
YouTubeSearchRequest(q, m, start_time, end_time) ==
    [api |-> "search.list", query |-> q, max_results |-> Min(m * 2, 50),
     start_time |-> FormatSeconds(start_time), end_time |-> FormatSeconds(end_time)]

\* Step 4 of run: end_time = datetime.now(timezone.utc)
YouTubeEndTime(clock) == clock

\* start_time = end_time - timedelta(days=7)
YouTubeStartTime(end_time) == MinusSeconds(end_time, Timedelta(7, 0))

YouTubeVideosRequest(video_ids) ==
    [api |-> "videos.list", id |-> video_ids]

YouTubeMetadata(q, t, quota_used) ==
    [time_range |-> "last_week", enhanced_query |-> q,
     engagement_threshold |-> t, quota_used |-> quota_used]

YouTubeError(q, message) ==
    [error |-> message, query |-> q, total_results |-> 0, videos |-> << >>]

\* `except HttpError as e`: json.loads(e.content.decode('utf-8')) and the two
\* .get calls run inside the handler, so what they raise leaves run
HttpErrorHandler(e, q) ==
    IF e.body = "not_utf8" THEN
        Propagated(Exc("UnicodeDecodeError", "invalid start byte"))
    ELSE IF e.body = "not_json" THEN
        Propagated(Exc("JSONDecodeError", "Expecting value"))
    ELSE IF e.body = "json_not_object" THEN
        Propagated(Exc("AttributeError", "'list' object has no attribute 'get'"))
    ELSE IF e.body = "json_error_not_object" THEN
        Propagated(Exc("AttributeError", "'str' object has no attribute 'get'"))
    ELSE IF e.body = "json_error_message" THEN
        Returned(YouTubeError(q, "YouTube API error: " \o "quotaExceeded"))
    ELSE
        Returned(YouTubeError(q, "YouTube API error: " \o e.msg))

\* the except clauses of run
YouTubeHandler(e, q) ==
    IF e.type = "HttpError" THEN HttpErrorHandler(e, q)
    ELSE Returned(YouTubeError(q, "Unexpected error: " \o e.msg))

\* Steps 1 and 2 of run: the envelope returned before any client exists
YouTubeEarly(q, api_key) ==
    IF Strip(q) = << >> THEN
        Some(YouTubeError(q, "Topic or keywords cannot be empty"))
    ELSE IF IsNone(api_key) \/ Val(api_key) = "" THEN
        Some(YouTubeError(q,
            "YouTube API key not found in environment variables. Please set YOUTUBE_API_KEY."))
    ELSE None

\* run: [outcome, client, requests]
YouTubeRun(q, m, t, api_key, search, videos, clock) ==
    LET early == YouTubeEarly(q, api_key)
        end_time == YouTubeEndTime(Val(clock))
        start_time == YouTubeStartTime(end_time)
        search_request == YouTubeSearchRequest(q, m, start_time, end_time)
    IN
    IF ~IsNone(early) THEN
        [outcome |-> Returned(Val(early)), client |-> FALSE, requests |-> << >>]
    ELSE IF search.kind = "raise" THEN
        [outcome |-> YouTubeHandler(search.exc, q), client |-> TRUE,
         requests |-> << search_request >>]
    ELSE
        LET video_ids == [i \in DOMAIN search.items |-> search.items[i].videoId] IN
        IF video_ids = << >> THEN
            [outcome |-> Returned(
                [query |-> q, total_results |-> 0,
                 search_metadata |-> YouTubeMetadata(q, t, 100),
                 videos |-> << >>]),
             client |-> TRUE, requests |-> << search_request >>]
        ELSE IF videos.kind = "raise" THEN
            [outcome |-> YouTubeHandler(videos.exc, q), client |-> TRUE,
             requests |-> << search_request, YouTubeVideosRequest(video_ids) >>]
        ELSE
            LET videos_data ==
                    YouTubeLimit(SortAndFilterVideos(ProcessVideos(videos.items), t), m)
            IN [outcome |-> Returned(
                    [query |-> q, total_results |-> Len(videos_data),
                     search_metadata |->
                        YouTubeMetadata(q, t, 100 + Len(video_ids)),
                     videos |-> videos_data]),
                client |-> TRUE,
                requests |-> << search_request, YouTubeVideosRequest(video_ids) >>]


----------------------------------------------------------------------------
(* Invocations of the search tools *)

\* no tool has been invoked and no server process has started
Init ==
    /\ pc = "idle"
    /\ tool = "none"
    /\ topic_or_keywords = << >>
    /\ max_results = 0
    /\ min_engagement_threshold = None
    /\ credential = None
    /\ observed = << >>
    /\ outcome = [kind |-> "none"]
    /\ client_created = FALSE
    /\ requests = << >>
    /\ now = None
    /\ entry = "none"
    /\ fs = [dirs |-> {}, files |-> << >>]
    /\ tools_dir = ""
    /\ scan = << >>
    /\ process = [state |-> "idle", status |-> 0, printed |-> << >>, mcp_tools |-> << >>]
    /\ calls = << >>
    /\ os_environ = [TWITTER_BEARER_TOKEN |-> None, YOUTUBE_API_KEY |-> None]
    /\ threads = << >>
    /\ frames = << >>

\* the instance, its environment and what its run produced
Invoked(name, q, m, t, cred, seen, clock, r) ==
    /\ pc' = "done"
    /\ tool' = name
    /\ topic_or_keywords' = q
    /\ max_results' = m
    /\ min_engagement_threshold' = t
    /\ credential' = cred
    /\ observed' = seen
    /\ outcome' = r.outcome
    /\ client_created' = r.client
    /\ requests' = r.requests
    /\ now' = clock
    /\ UNCHANGED << serverVars, mockVars, concurrentVars >>

\* TwitterSearchTool(...).run() with TWITTER_BEARER_TOKEN = token
RunTwitter ==
    /\ pc = "idle"
    /\ \E q \in Queries, m \in MaxResultsValues, t \in Thresholds, token \in Credentials :
         \E prov \in IF IsNone(TwitterEarly(q, m, t, token)) THEN TwitterBehaviours
                     ELSE {NoCall} :
            \E clock \in ClockReads(TwitterEarly(q, m, t, token)) :
                Invoked("twitter", q, m, t, token, << prov >>, clock,
                        TwitterRun(q, m, t, token, prov, clock))

\* TwitterSearchLiteTool(...).run() with TWITTER_BEARER_TOKEN = token
RunLite ==
    /\ pc = "idle"
    /\ \E q \in Queries, m \in MaxResultsValues, t \in Thresholds, token \in Credentials :
         \E prov \in IF IsNone(LiteEarly(q, m, t, token)) THEN TwitterBehaviours
                     ELSE {NoCall} :
            \E clock \in ClockReads(LiteEarly(q, m, t, token)) :
                Invoked("lite", q, m, t, token, << prov >>, clock,
                        LiteRun(q, m, t, token, prov, clock))

\* YouTubeSearchTool(...): the Field constraints fail and no instance exists
RejectYouTube ==
    /\ pc = "idle"
    /\ \E q \in Queries, m \in MaxResultsValues, t \in Thresholds, api_key \in Credentials :
         /\ ~YouTubeFieldsValid(m, t)
         /\ Invoked("youtube", q, m, t, api_key, << >>, None,
                    [outcome |-> [kind |-> "rejected",
                                  exc |-> Exc("ValidationError",
                                              "Input should satisfy the field constraints")],
                     client |-> FALSE, requests |-> << >>])

\* YouTubeSearchTool(...).run() with YOUTUBE_API_KEY = api_key
RunYouTube ==
    /\ pc = "idle"
    /\ \E q \in Queries, m \in MaxResultsValues, t \in Thresholds, api_key \in Credentials :
         /\ YouTubeFieldsValid(m, t)
         /\ \E search \in IF IsNone(YouTubeEarly(q, api_key)) THEN YouTubeSearchBehaviours
                          ELSE {NoCall} :
              \E videos \in IF search.kind = "ok" /\ search.items # << >>
                            THEN YouTubeVideoBehaviours ELSE {NoCall} :
                 \E clock \in ClockReads(YouTubeEarly(q, api_key)) :
                    Invoked("youtube", q, m, t, api_key, << search, videos >>, clock,
                            YouTubeRun(q, m, t, api_key, search, videos, clock))

\* the caller has its answer; the next invocation starts from a fresh instance
Finish ==
    /\ pc = "done"
    /\ pc' = "idle"
    /\ tool' = "none"
    /\ topic_or_keywords' = << >>
    /\ max_results' = 0
    /\ min_engagement_threshold' = None
    /\ credential' = None
    /\ observed' = << >>
    /\ outcome' = [kind |-> "none"]
    /\ client_created' = FALSE
    /\ requests' = << >>
    /\ now' = None
    /\ UNCHANGED << serverVars, mockVars, concurrentVars >>

NextSearch == RunTwitter \/ RunLite \/ RejectYouTube \/ RunYouTube \/ Finish

SpecSearch == Init /\ [][NextSearch]_vars


----------------------------------------------------------------------------
(* Properties of the search tools *)

\* run() was entered and has ended (a rejected instance has no run)
RunEnded == pc = "done" /\ outcome.kind \in {"returned", "raised"}

ReturnedEnvelope == pc = "done" /\ outcome.kind = "returned"

ItemsKey == IF tool = "youtube" THEN "videos" ELSE "tweets"

\* the item list of the returned envelope
ReturnedItems == outcome.envelope[ItemsKey]

NonBlank(q) == \E i \in DOMAIN q : ~IsSpace(q[i])

\* the envelope of a failure: an error string, no results
IsErrorEnvelope(e) ==
    /\ "error" \in DOMAIN e
    /\ e.error # ""
    /\ "total_results" \in DOMAIN e
    /\ e.total_results = 0
    /\ ItemsKey \in DOMAIN e
    /\ e[ItemsKey] = << >>

\* C1: for each search tool, every input and every provider behaviour
\* (response, authentication failure, rate limit, HTTP error with any body,
\* any other exception), run() ends by returning a JSON object that holds
\* query, total_results and the items key; it never lets an exception out.
C1_AlwaysEnvelope ==
    RunEnded =>
        /\ outcome.kind = "returned"
        /\ {"query", "total_results", ItemsKey} \subseteq DOMAIN outcome.envelope

\* the provider's search call failed with an authentication or rate-limit error
SearchCallFailedWith(type) ==
    /\ RunEnded
    /\ tool \in {"twitter", "lite"}
    /\ requests # << >>
    /\ observed[1].kind = "raise"
    /\ observed[1].exc.type = type

\* C2: in the two Twitter tools, when the provider's search call fails with
\* an authentication error or a rate-limit error, the returned envelope has
\* the error string of that category, total_results 0 and no tweets; it is
\* never a successful search with zero results.
C2_ProviderFailureReported ==
    /\ SearchCallFailedWith("Unauthorized") =>
          /\ outcome.kind = "returned"
          /\ IsErrorEnvelope(outcome.envelope)
          /\ outcome.envelope.error
               = "Twitter API authentication failed. Please check your Bearer Token."
    /\ SearchCallFailedWith("TooManyRequests") =>
          /\ outcome.kind = "returned"
          /\ IsErrorEnvelope(outcome.envelope)
          /\ outcome.envelope.error
               = "Twitter API rate limit exceeded. Please wait 15 minutes before trying again."

\* the inputs are in the documented ranges of the tool that ran
InputsValid ==
    /\ NonBlank(topic_or_keywords)
    /\ tool = "twitter" =>
          /\ Len(topic_or_keywords) <= 512
          /\ max_results \in 10..100
          /\ IsNone(min_engagement_threshold) \/ Val(min_engagement_threshold) >= 0
    /\ tool = "lite" =>
          /\ Len(topic_or_keywords) <= 100
          /\ max_results \in 10..25
    /\ tool = "youtube" =>
          /\ max_results \in 10..50
          /\ IsNone(min_engagement_threshold) \/ Val(min_engagement_threshold) >= 0

CredentialMissing == IsNone(credential) \/ Val(credential) = ""

\* the error text that names the credential variable of the tool that ran
MissingCredentialError ==
    IF tool = "youtube"
    THEN "YouTube API key not found in environment variables. Please set YOUTUBE_API_KEY."
    ELSE "Twitter Bearer Token not found. Please set TWITTER_BEARER_TOKEN in your .env file."

\* C3: every search tool run with valid inputs while its credential variable
\* is unset or empty returns an envelope whose error names the missing
\* credential, with total_results 0 and no items; no provider client is
\* created and no request is sent.
C3_MissingCredential ==
    (RunEnded /\ InputsValid /\ CredentialMissing) =>
        /\ outcome.kind = "returned"
        /\ IsErrorEnvelope(outcome.envelope)
        /\ outcome.envelope.error = MissingCredentialError
        /\ ~client_created
        /\ requests = << >>

\* C3 happens: a valid Twitter search with TWITTER_BEARER_TOKEN set to ""
C3_Witness ==
    /\ RunEnded /\ InputsValid
    /\ tool = "twitter"
    /\ credential = Some("")
    /\ outcome.kind = "returned"
    /\ outcome.envelope.error = MissingCredentialError

\* C4: every search tool run with an empty or whitespace-only query returns
\* an error envelope with total_results 0 and no items and sends no request,
\* whatever the credential and the other inputs are.
C4_BlankQuery ==
    (RunEnded /\ ~NonBlank(topic_or_keywords)) =>
        /\ outcome.kind = "returned"
        /\ IsErrorEnvelope(outcome.envelope)
        /\ requests = << >>

\* C4 happens: a whitespace-only query, a credential that is set and an
\* out-of-range max_results, answered with an error envelope
C4_Witness ==
    /\ RunEnded
    /\ topic_or_keywords # << >> /\ ~NonBlank(topic_or_keywords)
    /\ ~CredentialMissing
    /\ max_results = 101
    /\ outcome.kind = "returned"
    /\ "error" \in DOMAIN outcome.envelope

\* the list is ordered by total_engagement, largest first
NonIncreasing(items) ==
    \A i, j \in DOMAIN items : i < j => Key(items[i]) >= Key(items[j])

\* C5: for every search tool and provider response, when a threshold is
\* given (0 included) every returned item has total_engagement >= the
\* threshold and the list is in non-increasing order of total_engagement.
C5_ThresholdAndOrder ==
    (ReturnedEnvelope /\ ~IsNone(min_engagement_threshold)) =>
        /\ \A i \in DOMAIN ReturnedItems :
              Key(ReturnedItems[i]) >= Val(min_engagement_threshold)
        /\ NonIncreasing(ReturnedItems)

\* the records the provider sent for the item list
ProviderRecords ==
    IF tool = "youtube" THEN observed[2].items ELSE observed[1].data

\* C5 happens: a threshold of 10 removed a record and left two items with
\* different scores
C5_Witness ==
    /\ ReturnedEnvelope
    /\ min_engagement_threshold = Some(10)
    /\ Len(ReturnedItems) = 2
    /\ Key(ReturnedItems[1]) > Key(ReturnedItems[2])
    /\ Len(ProviderRecords) = 3

\* C6: for every search tool and provider response, also one that holds
\* more records than were asked for, the envelope has at most max_results
\* items.
C6_AtMostMaxResults ==
    ReturnedEnvelope => Len(ReturnedItems) <= max_results

\* C7: in the two Twitter tools a max_results outside the documented range
\* (10..100, lite 10..25) gives an error envelope and no provider call; the
\* range is checked before the credential is looked up, so the error is not
\* the missing-credential one and no client is created.
C7_RangeChecked ==
    (/\ RunEnded
     /\ \/ tool = "twitter" /\ max_results \notin 10..100
        \/ tool = "lite" /\ max_results \notin 10..25) =>
        /\ outcome.kind = "returned"
        /\ IsErrorEnvelope(outcome.envelope)
        /\ outcome.envelope.error # MissingCredentialError
        /\ ~client_created
        /\ requests = << >>

\* C7 happens: the lite tool asked for 26 tweets with a valid query and no
\* credential answers with the range error
C7_Witness ==
    /\ RunEnded
    /\ tool = "lite"
    /\ max_results = 26
    /\ NonBlank(topic_or_keywords)
    /\ CredentialMissing
    /\ outcome.kind = "returned"
    /\ outcome.envelope.error
         = "Unexpected error: max_results must be between 10 and 25 for lite version (API minimum is 10)"

\* C8: for every search tool a negative min_engagement_threshold fails
\* fast: the invocation ends with an error (a rejected instance or an error
\* envelope) and no request is sent.
C8_NegativeThresholdFailsFast ==
    (/\ pc = "done"
     /\ ~IsNone(min_engagement_threshold)
     /\ Val(min_engagement_threshold) < 0) =>
        /\ requests = << >>
        /\ \/ outcome.kind = "rejected"
           \/ outcome.kind = "returned" /\ IsErrorEnvelope(outcome.envelope)


----------------------------------------------------------------------------
(* The disk the loader scans *)

DEFAULT_TOOLS_DIR == "./tools"

\* the directories of the model; "./tools/social" lies in "./tools"
AllDirs == {"./tools", "./tools/social", "./custom"}

ParentDir(d) == IF d = "./tools/social" THEN "./tools" ELSE "."

\* the directory a path names: "tools" and "./tools" are one directory
Canonical(path) == IF path = "tools" THEN "./tools" ELSE path

\* the values of config.tools_dir (MCP_TOOLS_DIR or --tools-dir)
ToolsDirValues == {"./tools", "tools", "./tools/social", "./custom", "./missing"}

\* a member of a module as inspect sees it
Member(name, is_class, is_tool, module) ==
    [name |-> name, is_class |-> is_class, is_tool |-> is_tool, module |-> module]

\* the files that may lie in a directory: name = prefix + stem + ext, what
\* exec_module does with it, its members in the order of declaration, and
\* the names of the classes that its own class statements define
FileKinds ==
    { \* alpha.py: two tools, and BaseTool imported from the framework
      [prefix |-> "", stem |-> "alpha", ext |-> ".py", load |-> "ok",
       members |-> << Member("BaseTool", TRUE, TRUE, "agency_swarm.tools"),
                      Member("ZetaTool", TRUE, TRUE, "alpha"),
                      Member("BetaTool", TRUE, TRUE, "alpha") >>,
       defines |-> {"ZetaTool", "BetaTool"}],
      \* beta.py: one tool, one plain class, and ZetaTool imported from alpha
      [prefix |-> "", stem |-> "beta", ext |-> ".py", load |-> "ok",
       members |-> << Member("ZetaTool", TRUE, TRUE, "alpha"),
                      Member("Helper", TRUE, FALSE, "beta"),
                      Member("GammaTool", TRUE, TRUE, "beta") >>,
       defines |-> {"Helper", "GammaTool"}],
      \* broken.py: defines a tool, then raises an Exception
      [prefix |-> "", stem |-> "broken", ext |-> ".py", load |-> "Exception",
       members |-> << Member("DeltaTool", TRUE, TRUE, "broken") >>,
       defines |-> {"DeltaTool"}],
      \* script.py: calls sys.exit(2) when executed
      [prefix |-> "", stem |-> "script", ext |-> ".py", load |-> "SystemExit",
       members |-> << >>, defines |-> {}],
      \* _helper.py
      [prefix |-> "_", stem |-> "helper", ext |-> ".py", load |-> "ok",
       members |-> << Member("EtaTool", TRUE, TRUE, "_helper") >>,
       defines |-> {"EtaTool"}],
      \* __init__.py
      [prefix |-> "__", stem |-> "init__", ext |-> ".py", load |-> "ok",
       members |-> << Member("InitTool", TRUE, TRUE, "__init__") >>,
       defines |-> {"InitTool"}],
      \* notes.txt
      [prefix |-> "", stem |-> "notes", ext |-> ".txt", load |-> "ok",
       members |-> << >>, defines |-> {}] }

\* a second beta.py, outside the base root: it defines ThetaTool and has
\* `from beta import GammaTool`, which sys.path resolves to the beta module
\* of the base root; the imported class has __module__ 'beta'
NamesakeKind ==
    [prefix |-> "", stem |-> "beta", ext |-> ".py", load |-> "ok",
     members |-> << Member("GammaTool", TRUE, TRUE, "beta"),
                    Member("ThetaTool", TRUE, TRUE, "beta") >>,
     defines |-> {"ThetaTool"}]

FileIn(dir, kind) ==
    [dir |-> dir, prefix |-> kind.prefix, stem |-> kind.stem, ext |-> kind.ext,
     load |-> kind.load, members |-> kind.members, defines |-> kind.defines]

Files ==
    { FileIn(d, k) : d \in AllDirs, k \in FileKinds }
        \cup { FileIn(d, NamesakeKind) : d \in AllDirs \ {DEFAULT_TOOLS_DIR} }

SameFile(f, g) ==
    f.dir = g.dir /\ f.prefix = g.prefix /\ f.stem = g.stem /\ f.ext = g.ext

\* a disk: the directories that exist and the files in them, in the order
\* in which os.listdir and os.walk list them
Disks ==
    { [dirs |-> ds, files |-> fl] :
        ds \in { x \in SUBSET AllDirs : \A d \in x : ParentDir(d) \in x \cup {"."} },
        fl \in { l \in SeqsUpTo(Files, MaxFiles) :
                   \A i, j \in DOMAIN l : i # j => ~SameFile(l[i], l[j]) } }

\* every file lies in a directory that exists
WellFormedDisk(disk) == \A i \in DOMAIN disk.files : disk.files[i].dir \in disk.dirs

\* os.path.exists(path)
Exists(disk, path) == Canonical(path) \in disk.dirs

----------------------------------------------------------------------------
(* load_tools_from_directory *)

FileName(f) == f.prefix \o f.stem \o f.ext
FilePath(f) == f.dir \o "/" \o FileName(f)

\* os.path.splitext(file)[0]
ModuleName(f) == f.prefix \o f.stem

\* `and not f.startswith('__')` left out
IsToolSource_AnyPython(f) == f.ext = ".py"

\* f.endswith('.py') and not f.startswith('__')
IsToolSource(f) == f.ext = ".py" /\ f.prefix # "__"

\* the files the loops visit, in order: os.listdir(directory) when
\* parent_only, else os.walk(directory), the directory before what lies in it
ScanList(disk, directory, parent_only) ==
    LET root == Canonical(directory)
        here == SelectSeq(disk.files, LAMBDA f : f.dir = root)
        below == SelectSeq(disk.files, LAMBDA f : f.dir # root /\ ParentDir(f.dir) = root)
    IN SelectSeq(IF parent_only THEN here ELSE here \o below, IsToolSource)

\* the order of names in inspect.getmembers: sorted by name
NameOrder ==
    << "BaseTool", "BetaTool", "DeltaTool", "EtaTool", "GammaTool", "Helper",
       "InitTool", "ThetaTool", "ZetaTool" >>
NameRank(name) == CHOOSE i \in DOMAIN NameOrder : NameOrder[i] = name

RECURSIVE InsertByName(_, _)
InsertByName(x, s) ==
    IF s = << >> THEN << x >>
    ELSE IF NameRank(Head(s).name) <= NameRank(x.name)
        THEN << Head(s) >> \o InsertByName(x, Tail(s))
    ELSE << x >> \o s

\* the members as the module's namespace holds them, unsorted
GetMembers_Declared(members) == members

\* inspect.getmembers(module)
RECURSIVE GetMembers(_)
GetMembers(members) ==
    IF members = << >> THEN << >>
    ELSE InsertByName(members[Len(members)],
                      GetMembers(SubSeq(members, 1, Len(members) - 1)))

\* inspect.isclass(obj) and issubclass(obj, BaseTool)
\*   and obj.__module__ == module.__name__
IsToolOf(member, module_name) ==
    member.is_class /\ member.is_tool /\ member.module = module_name

\* a tool class object: its name and the file that defined it
ToolClass(member, f) == [name |-> member.name, module |-> member.module, path |-> FilePath(f)]

\* the body of the try for one file: exec_module, then the classes to append
LoadFile(f) ==
    IF f.load = "Exception"
        THEN Raised(Exc("Exception", "import failed"))
    ELSE IF f.load = "SystemExit"
        THEN Raised(Exc("SystemExit", "2"))
    ELSE LET found == SelectSeq(GetMembers(f.members),
                                LAMBDA mem : IsToolOf(mem, ModuleName(f)))
         IN Ok([i \in DOMAIN found |-> ToolClass(found[i], f)])

\* `except Exception`: SystemExit and KeyboardInterrupt are not Exceptions
CatchesException_Nothing(e) == FALSE

CatchesException(e) == e.type \notin {"SystemExit", "KeyboardInterrupt", "GeneratorExit"}

\* one try around the whole loop: the first failing file ends the scan
RECURSIVE LoadFiles_TryAroundLoop(_, _, _)
LoadFiles_TryAroundLoop(files, tools, printed) ==
    IF files = << >> THEN [exc |-> None, tools |-> tools, printed |-> printed]
    ELSE LET r == LoadFile(Head(files))
         IN IF IsNone(r.exc)
                THEN LoadFiles_TryAroundLoop(Tail(files), tools \o r.val, printed)
            ELSE [exc |-> None, tools |-> tools,
                  printed |-> Append(printed, "Error loading: " \o Val(r.exc).msg)]

\* the loop over the files: [exc, tools, printed]
RECURSIVE LoadFiles(_, _, _)
LoadFiles(files, tools, printed) ==
    IF files = << >> THEN [exc |-> None, tools |-> tools, printed |-> printed]
    ELSE LET f == Head(files)
             r == LoadFile(f)
         IN IF IsNone(r.exc) THEN LoadFiles(Tail(files), tools \o r.val, printed)
            ELSE IF CatchesException(Val(r.exc)) THEN
                LoadFiles(Tail(files), tools,
                          Append(printed, "Error loading " \o FilePath(f) \o ": "
                                              \o Val(r.exc).msg))
            ELSE [exc |-> r.exc, tools |-> tools, printed |-> printed]

\* load_tools_from_directory(directory, parent_only): [exc, tools, printed];
\* with exc set the call did not return and tools is what it had collected
LoadToolsFromDirectory(disk, directory, parent_only) ==
    IF ~Exists(disk, directory) THEN
        [exc |-> None, tools |-> << >>,
         printed |-> << "Directory does not exist: " \o directory >>]
    ELSE LET r == LoadFiles(ScanList(disk, directory, parent_only), << >>, << >>)
         IN IF ~IsNone(r.exc) THEN r
            ELSE [r EXCEPT !.printed =
                    Append(@, "Loaded " \o ToString(Len(r.tools)) \o " tools from "
                                  \o directory)]


----------------------------------------------------------------------------
(* The server entry points *)

\* what one call of load_tools_from_directory did
ScanOf(directory, parent_only, r) ==
    [directory |-> directory, parent_only |-> parent_only,
     raised |-> ~IsNone(r.exc), tools |-> r.tools]

NoToolsFound == "Error: No tools found in the specified directories"

\* an exception nobody catches ends the process; sys.exit(2) ends it with 2
Crashed(printed) ==
    [state |-> "exited", status |-> 2, printed |-> printed, mcp_tools |-> << >>]

\* `if not all_tools: print(...); sys.exit(1)` left out
StartOrExit_NoCheck(all_tools, printed) ==
    [state |-> "serving", status |-> 0, printed |-> printed, mcp_tools |-> all_tools]

\* `if not all_tools: print(...); sys.exit(1)`, else run_mcp(tools=all_tools)
StartOrExit(all_tools, printed) ==
    IF all_tools = << >> THEN
        [state |-> "exited", status |-> 1, printed |-> Append(printed, NoToolsFound),
         mcp_tools |-> << >>]
    ELSE
        [state |-> "serving", status |-> 0, printed |-> printed, mcp_tools |-> all_tools]

\* the two scans and what follows them, as both entry points write it:
\* [scans, process]
ScanAndStart(disk, dir) ==
    LET base == LoadToolsFromDirectory(disk, DEFAULT_TOOLS_DIR, TRUE) IN
    IF ~IsNone(base.exc) THEN
        [scans |-> << ScanOf(DEFAULT_TOOLS_DIR, TRUE, base) >>,
         process |-> Crashed(base.printed)]
    ELSE IF dir # DEFAULT_TOOLS_DIR /\ Exists(disk, dir) THEN
        LET specified == LoadToolsFromDirectory(disk, dir, FALSE) IN
        IF ~IsNone(specified.exc) THEN
            [scans |-> << ScanOf(DEFAULT_TOOLS_DIR, TRUE, base),
                          ScanOf(dir, FALSE, specified) >>,
             process |-> Crashed(base.printed \o specified.printed)]
        ELSE
            [scans |-> << ScanOf(DEFAULT_TOOLS_DIR, TRUE, base),
                          ScanOf(dir, FALSE, specified) >>,
             process |-> StartOrExit(base.tools \o specified.tools,
                                     base.printed \o specified.printed)]
    ELSE
        [scans |-> << ScanOf(DEFAULT_TOOLS_DIR, TRUE, base) >>,
         process |-> StartOrExit(base.tools, base.printed)]

\* the block under `if __name__ == "__main__"`; the lines it prints about
\* name, host and port are left out
MainProcess(disk, dir) ==
    LET r == ScanAndStart(disk, dir) IN
    IF r.process.state = "serving" THEN
        [r EXCEPT !.process.printed =
            @ \o << "  Total tools loaded: " \o ToString(Len(r.process.mcp_tools)) >>]
    ELSE r

\* setup_uvicorn_app()
SetupUvicornApp(disk, dir) == ScanAndStart(disk, dir)

Started(how, disk, dir, r) ==
    /\ entry' = how
    /\ fs' = disk
    /\ tools_dir' = dir
    /\ scan' = r.scans
    /\ process' = r.process
    /\ UNCHANGED << searchVars, mockVars, concurrentVars >>

\* python start_mcp.py with config.tools_dir = dir
Main ==
    /\ entry = "none"
    /\ \E disk \in Disks, dir \in ToolsDirValues :
         /\ WellFormedDisk(disk)
         /\ Started("main", disk, dir, MainProcess(disk, dir))

\* app = setup_uvicorn_app() with config.tools_dir = dir
Uvicorn ==
    /\ entry = "none"
    /\ \E disk \in Disks, dir \in ToolsDirValues :
         /\ WellFormedDisk(disk)
         /\ Started("uvicorn", disk, dir, SetupUvicornApp(disk, dir))

\* a call of load_tools_from_directory(directory, parent_only) by itself
LoadTools ==
    /\ entry = "none"
    /\ \E disk \in Disks, directory \in ToolsDirValues, parent_only \in BOOLEAN :
         /\ WellFormedDisk(disk)
         /\ LET r == LoadToolsFromDirectory(disk, directory, parent_only)
            IN Started("load", disk, directory,
                       [scans |-> << ScanOf(directory, parent_only, r) >>,
                        process |-> [state |-> IF IsNone(r.exc) THEN "returned"
                                               ELSE "raised",
                                     status |-> 0, printed |-> r.printed,
                                     mcp_tools |-> << >>]])

\* the orders in which os.listdir and os.walk may list the same files
Listings(files) ==
    { [i \in DOMAIN files |-> files[p[i]]] : p \in Permutations(DOMAIN files) }

\* a second call of load_tools_from_directory with the same arguments, the
\* disk unchanged; the directory may be listed in another order
LoadAgain ==
    /\ entry = "load"
    /\ Len(scan) = 1
    /\ process.state = "returned"
    /\ \E listing \in Listings(fs.files) :
         LET r == LoadToolsFromDirectory([fs EXCEPT !.files = listing],
                                         scan[1].directory, scan[1].parent_only)
         IN /\ scan' = Append(scan, ScanOf(scan[1].directory, scan[1].parent_only, r))
            /\ process' = [process EXCEPT
                              !.state = IF IsNone(r.exc) THEN "returned" ELSE "raised",
                              !.printed = @ \o r.printed]
    /\ UNCHANGED << entry, fs, tools_dir >>
    /\ UNCHANGED << searchVars, mockVars, concurrentVars >>

\* the process is gone; the next one starts from nothing
Exit ==
    /\ entry # "none"
    /\ entry' = "none"
    /\ fs' = [dirs |-> {}, files |-> << >>]
    /\ tools_dir' = ""
    /\ scan' = << >>
    /\ process' = [state |-> "idle", status |-> 0, printed |-> << >>, mcp_tools |-> << >>]
    /\ UNCHANGED << searchVars, mockVars, concurrentVars >>

NextServer == Main \/ Uvicorn \/ LoadTools \/ LoadAgain \/ Exit

SpecServer == Init /\ [][NextServer]_vars


----------------------------------------------------------------------------
(* Properties of the loader and of the server entry points *)

ServerRan == entry \in {"main", "uvicorn"}

RECURSIVE ScannedTools(_)
ScannedTools(scans) ==
    IF scans = << >> THEN << >> ELSE Head(scans).tools \o ScannedTools(Tail(scans))

AllScansReturned == \A k \in DOMAIN scan : ~scan[k].raised

\* C9: in both entry points run_mcp is never given an empty tool list: when
\* the base scan and the optional second scan together yield no tools, the
\* process prints the 'No tools found' diagnostic and exits with status 1
\* and the server is not started.
C9_NeverServesEmpty ==
    /\ process.state = "serving" => process.mcp_tools # << >>
    /\ (ServerRan /\ AllScansReturned /\ ScannedTools(scan) = << >>) =>
          /\ process.state = "exited"
          /\ process.status = 1
          /\ \E i \in DOMAIN process.printed : process.printed[i] = NoToolsFound
          /\ process.mcp_tools = << >>

\* C9 happens: setup_uvicorn_app scanned two directories that hold files
\* but no tool, and the process exited with 1
C9_Witness ==
    /\ entry = "uvicorn"
    /\ Len(scan) = 2
    /\ AllScansReturned
    /\ Len(fs.files) = 2
    /\ fs.files[1].dir = "./tools" /\ fs.files[2].dir = "./custom"
    /\ process.state = "exited"
    /\ process.status = 1

\* the files of the disk a scan visits
Visited(sc) ==
    { fs.files[i] : i \in { j \in DOMAIN fs.files :
        /\ IsToolSource(fs.files[j])
        /\ \/ fs.files[j].dir = Canonical(sc.directory)
           \/ ~sc.parent_only /\ ParentDir(fs.files[j].dir) = Canonical(sc.directory) } }

\* the tool classes a file defines
DefinedTools(f) ==
    { ToolClass(f.members[i], f) :
        i \in { j \in DOMAIN f.members : IsToolOf(f.members[j], ModuleName(f)) } }

\* the scan returned every tool class of every visited file that loads
HoldsLoadable(sc) ==
    \A f \in Visited(sc) :
        f.load = "ok" =>
            \A c \in DefinedTools(f) : \E i \in DOMAIN sc.tools : sc.tools[i] = c

\* C10 as stated: for every directory content and either scan mode a file
\* whose import fails is skipped and the scan goes on: the scan returns, and
\* its result holds every tool class of every other file that loads.
C10_FaultIsolation ==
    \A k \in DOMAIN scan : ~scan[k].raised /\ HoldsLoadable(scan[k])

\* C10, amended: a file whose import raises an Exception is skipped and the
\* scan goes on, so a scan that visits no file raising SystemExit (or another
\* BaseException that is no Exception) returns every tool class of every
\* visited file that loads; a visited file that raises SystemExit ends the
\* scan with that SystemExit.
C10_ExceptionIsolation ==
    \A k \in DOMAIN scan :
        IF \E f \in Visited(scan[k]) : f.load = "SystemExit"
        THEN scan[k].raised
        ELSE ~scan[k].raised /\ HoldsLoadable(scan[k])

\* C10 happens: a recursive scan met broken.py before alpha.py and returned
\* the two tools of alpha.py
C10_Witness ==
    /\ entry = "load"
    /\ Len(scan) = 1
    /\ ~scan[1].parent_only
    /\ Len(fs.files) = 2
    /\ fs.files[1].load = "Exception" /\ fs.files[1] \in Visited(scan[1])
    /\ fs.files[2].stem = "alpha" /\ fs.files[2] \in Visited(scan[1])
    /\ ~scan[1].raised
    /\ Len(scan[1].tools) = 2

\* the file lies where the scan looks: in the root, or below it when the
\* scan recurses
InScope(f, sc) ==
    \/ f.dir = Canonical(sc.directory)
    \/ ~sc.parent_only /\ ParentDir(f.dir) = Canonical(sc.directory)

FilesOnDisk == { fs.files[i] : i \in DOMAIN fs.files }

\* the files of the disk that define the tool class c
SourcesOf(c) == { f \in FilesOnDisk : FilePath(f) = c.path }

\* C11 as stated: every tool class a scan collected is defined in a source
\* file within the root whose name does not start with an underscore; no
\* class of a file such as _helper.py is in the result.
C11_NoUnderscoreFiles ==
    \A k \in DOMAIN scan : \A i \in DOMAIN scan[k].tools :
        \E f \in SourcesOf(scan[k].tools[i]) :
            InScope(f, scan[k]) /\ f.ext = ".py" /\ f.prefix = ""

\* C11, amended: the files skipped are those whose name starts with two
\* underscores. Every tool class a scan collected is defined in a .py file
\* within the root whose name does not start with '__', and a scan that
\* returns holds the tool classes of every loadable file within the root
\* whose name starts with a single underscore.
C11_DunderFilesSkipped ==
    \A k \in DOMAIN scan :
        /\ \A i \in DOMAIN scan[k].tools :
              \E f \in SourcesOf(scan[k].tools[i]) :
                  InScope(f, scan[k]) /\ f.ext = ".py" /\ f.prefix # "__"
        /\ ~scan[k].raised =>
              \A f \in FilesOnDisk :
                  (InScope(f, scan[k]) /\ f.ext = ".py" /\ f.prefix = "_"
                      /\ f.load = "ok") =>
                      \A c \in DefinedTools(f) :
                          \E i \in DOMAIN scan[k].tools : scan[k].tools[i] = c

\* C11 happens: the root holds _helper.py and __init__.py; the scan returned
\* the tool of _helper.py and nothing of __init__.py
C11_Witness ==
    /\ entry = "load"
    /\ Len(scan) = 1
    /\ ~scan[1].raised
    /\ Len(fs.files) = 2
    /\ fs.files[1].prefix = "__" /\ InScope(fs.files[1], scan[1])
    /\ fs.files[2].prefix = "_" /\ InScope(fs.files[2], scan[1])
    /\ Len(scan[1].tools) = 1
    /\ scan[1].tools[1].name = "EtaTool"

\* where the file declares the class of that name
DeclIndex(f, name) == CHOOSE p \in DOMAIN f.members : f.members[p].name = name

\* two entries of a scan's result that come from one file, the first before
\* the second
SameFilePairs(sc) ==
    { pair \in (DOMAIN sc.tools) \X (DOMAIN sc.tools) :
        pair[1] < pair[2] /\ sc.tools[pair[1]].path = sc.tools[pair[2]].path }

\* C12 as stated: the tool classes of one file are appended in the order in
\* which the file declares them.
C12_DeclarationOrder ==
    \A k \in DOMAIN scan : \A pair \in SameFilePairs(scan[k]) :
        \A f \in SourcesOf(scan[k].tools[pair[1]]) :
            DeclIndex(f, scan[k].tools[pair[1]].name)
                < DeclIndex(f, scan[k].tools[pair[2]].name)

\* C12, amended: the tool classes of one file are appended in ascending
\* order of their names (the order of inspect.getmembers), whatever the order
\* of their declarations.
C12_NameOrder ==
    \A k \in DOMAIN scan : \A pair \in SameFilePairs(scan[k]) :
        NameRank(scan[k].tools[pair[1]].name) < NameRank(scan[k].tools[pair[2]].name)

\* C12 happens: alpha.py declares ZetaTool before BetaTool, and the scan
\* returned BetaTool before ZetaTool
C12_Witness ==
    /\ entry = "load"
    /\ Len(scan) = 1
    /\ ~scan[1].raised
    /\ \E f \in FilesOnDisk :
          /\ f.stem = "alpha"
          /\ DeclIndex(f, "ZetaTool") < DeclIndex(f, "BetaTool")
          /\ Len(scan[1].tools) = 2
          /\ scan[1].tools[1] = ToolClass(f.members[DeclIndex(f, "BetaTool")], f)
          /\ scan[1].tools[2] = ToolClass(f.members[DeclIndex(f, "ZetaTool")], f)

\* the file that defines a registered class lies directly in the base root
InBaseRoot(c) == \A f \in SourcesOf(c) : f.dir = Canonical(DEFAULT_TOOLS_DIR)

\* C13: the collection handed to run_mcp is the non-recursive scan of
\* './tools' followed by the recursive scan of the configured directory; the
\* second part is there if and only if the configured directory is another
\* directory than the base and exists; the length is the sum of the two
\* scans; and when the configured directory is the base, no tool of a
\* subdirectory of the base is registered.
C13_Aggregation ==
    (ServerRan /\ process.state = "serving") =>
        LET base == LoadToolsFromDirectory(fs, DEFAULT_TOOLS_DIR, TRUE).tools
            second ==
                IF Canonical(tools_dir) # Canonical(DEFAULT_TOOLS_DIR)
                        /\ Exists(fs, tools_dir)
                    THEN LoadToolsFromDirectory(fs, tools_dir, FALSE).tools
                ELSE << >>
        IN /\ process.mcp_tools = base \o second
           /\ Len(process.mcp_tools) = Len(base) + Len(second)
           /\ Canonical(tools_dir) = Canonical(DEFAULT_TOOLS_DIR) =>
                 \A i \in DOMAIN process.mcp_tools : InBaseRoot(process.mcp_tools[i])

\* how many entries of the collection are classes of that name
CountOf(name, tools) == Cardinality({ i \in DOMAIN tools : tools[i].name = name })

SameNames(a, b) ==
    \A i \in DOMAIN NameOrder : CountOf(NameOrder[i], a) = CountOf(NameOrder[i], b)

\* the directory of the scan is missing, or nothing in it is a file the scan
\* would load
NothingToLoad(sc) ==
    \/ ~Exists(fs, sc.directory)
    \/ \A f \in FilesOnDisk : ~(InScope(f, sc) /\ IsToolSource(f))

\* C14: on an unchanged disk two successive loads of one directory in one
\* mode return collections with the same multiset of tool class names, and
\* a load of a missing directory or of a directory without a matching file
\* returns the empty collection without raising, the first time and the
\* second.
C14_Idempotent ==
    entry = "load" =>
        /\ Len(scan) = 2 =>
              /\ ~scan[1].raised /\ ~scan[2].raised
              /\ SameNames(scan[1].tools, scan[2].tools)
        /\ \A k \in DOMAIN scan :
              NothingToLoad(scan[k]) => ~scan[k].raised /\ scan[k].tools = << >>

\* C14 happens: the second load listed broken.py and alpha.py in the other
\* order and returned the two tools of alpha.py again
C14_Witness ==
    /\ entry = "load"
    /\ Len(scan) = 2
    /\ Len(fs.files) = 2
    /\ fs.files[1].load = "Exception" /\ InScope(fs.files[1], scan[1])
    /\ fs.files[2].stem = "alpha" /\ InScope(fs.files[2], scan[1])
    /\ Len(scan[1].tools) = 2
    /\ Len(scan[2].tools) = 2
    /\ \E i \in DOMAIN process.printed :
          process.printed[i] = "Loaded 2 tools from " \o scan[2].directory

\* C14 happens for a missing directory: both loads returned nothing
C14_MissingWitness ==
    /\ entry = "load"
    /\ Len(scan) = 2
    /\ ~Exists(fs, scan[1].directory)
    /\ scan[1].tools = << >> /\ scan[2].tools = << >>

\* the classes of the file's namespace that the scan added: the entries of
\* the result that came out of this file
AddedFrom(sc, f) ==
    { sc.tools[i].name : i \in { j \in DOMAIN sc.tools : sc.tools[j].path = FilePath(f) } }

\* the classes the scan is to add from the file: subclasses of BaseTool
\* that the file itself defines
ToolsDefinedIn(f) ==
    { f.members[i].name :
        i \in { j \in DOMAIN f.members :
                  /\ f.members[j].is_class
                  /\ f.members[j].is_tool
                  /\ f.members[j].name \in f.defines } }

\* C21: a class is added to the result if and only if it is a subclass of
\* BaseTool and is defined in the module being scanned: from every file a
\* returned scan loaded it added the tool classes the file defines, each
\* once, and neither BaseTool nor a tool class the file imports.
C21_OnlyOwnTools ==
    \A k \in DOMAIN scan :
        ~scan[k].raised =>
            \A f \in Visited(scan[k]) :
                f.load = "ok" =>
                    /\ AddedFrom(scan[k], f) = ToolsDefinedIn(f)
                    /\ \A name \in AddedFrom(scan[k], f) :
                          Cardinality({ i \in DOMAIN scan[k].tools :
                                          /\ scan[k].tools[i].path = FilePath(f)
                                          /\ scan[k].tools[i].name = name }) = 1

----------------------------------------------------------------------------
(* Properties of the requests of the search tools *)

\* the advanced operators that conflict with the default filters
ConflictingOperators == { << "l", "a", "n", "g", ":" >>, << "-", "i", "s", ":" >> }

CarriesOperator(q) == \E op \in ConflictingOperators : Contains(q, op)

\* a search request went out
SearchSent == pc = "done" /\ requests # << >>

\* the query of the search request
SentQuery == requests[1].query

\* C15: in every search tool a query of the caller that carries a conflicting
\* advanced operator ('lang:', '-is:') is sent without added filters: what
\* is sent is text of the caller's query and nothing more.
C15_FiltersOnlyWithoutOperators ==
    (SearchSent /\ CarriesOperator(topic_or_keywords)) =>
        Contains(topic_or_keywords, SentQuery)

\* the requests of one invocation, in order, are a prefix of `apis`
RequestsFollow(apis) ==
    /\ Len(requests) <= Len(apis)
    /\ \A i \in DOMAIN requests : requests[i].api = apis[i]

\* the provider failed the i-th request and nothing was sent after it
NoRetryAfterFailure ==
    \A i \in DOMAIN requests :
        (i \in DOMAIN observed /\ observed[i].kind = "raise") => Len(requests) = i

\* C16 as stated: a Twitter tool sends at most one search request, YouTube
\* at most one search request and then at most one detail request; nothing
\* is sent again after a failure; and the count asked of the provider is
\* the requested max_results, never above the cap (100 Twitter, 50 YouTube).
C16_OneBoundedRequest ==
    pc = "done" =>
        /\ NoRetryAfterFailure
        /\ tool \in {"twitter", "lite"} =>
              /\ RequestsFollow(<< "search_recent_tweets" >>)
              /\ SearchSent =>
                    requests[1].max_results = max_results /\ requests[1].max_results <= 100
        /\ tool = "youtube" =>
              /\ RequestsFollow(<< "search.list", "videos.list" >>)
              /\ SearchSent =>
                    requests[1].max_results = max_results /\ requests[1].max_results <= 50

\* C16, amended: the same, but YouTubeSearchTool asks search.list for twice
\* the requested max_results, capped at 50; the Twitter tools ask for the
\* requested max_results itself.
C16_BoundedRequests ==
    pc = "done" =>
        /\ NoRetryAfterFailure
        /\ tool \in {"twitter", "lite"} =>
              /\ RequestsFollow(<< "search_recent_tweets" >>)
              /\ SearchSent =>
                    requests[1].max_results = max_results /\ requests[1].max_results <= 100
        /\ tool = "youtube" =>
              /\ RequestsFollow(<< "search.list", "videos.list" >>)
              /\ SearchSent =>
                    /\ requests[1].max_results = Min(2 * max_results, 50)
                    /\ requests[1].max_results <= 50

\* C16 happens: YouTubeSearchTool with max_results 50 asked for 50 videos,
\* the detail request failed, and no third request followed
C16_Witness ==
    /\ pc = "done"
    /\ tool = "youtube"
    /\ max_results = 50
    /\ Len(requests) = 2
    /\ requests[1].max_results = 50
    /\ observed[2].kind = "raise"

----------------------------------------------------------------------------
(* The mock tools: GetSecretWordTool, MarketingAnalysisTool,
   DataVisualizationTool *)

Seeds == {-1, 0, 1, 2}
CampaignIds == {"demo", "spring"}
TimePeriods == {"last_7_days", "last_quarter"}
DataSources == {"sales", "traffic"}
ChartTypes == {"bar", "pie"}
TimeRanges == {"daily", "weekly"}

\* the values of MCP_INSTANCE_NAME in the environment of the process
InstanceNames == {None, Some("default"), Some("analytics")}

\* GetSecretWordTool(seed=seed).run()
GetSecretWordRun(seed) == IF seed % 2 = 0 THEN "Strawberry" ELSE "Apple"

\* MarketingAnalysisTool(campaign_id=..., time_period=...).run()
MarketingAnalysisRun(campaign_id, time_period) ==
    IF campaign_id = "demo" THEN
        "Marketing analysis for campaign " \o campaign_id \o " over " \o time_period
            \o ":\n" \o "- Click-through rate: 2.8%\n" \o "- Conversion rate: 1.5%\n"
            \o "- ROI: 3.2x\n" \o "- Top performing channel: Social Media"
    ELSE
        "Analysis for campaign " \o campaign_id \o " over " \o time_period \o ":\n"
            \o "Campaign data not found or insufficient data for analysis."

\* os.getenv("MCP_INSTANCE_NAME") without the default: "None" when unset
InstanceName_NoDefault(environ) == IF IsNone(environ) THEN "None" ELSE Val(environ)

\* os.getenv("MCP_INSTANCE_NAME", "default")
InstanceName(environ) == IF IsNone(environ) THEN "default" ELSE Val(environ)

\* DataVisualizationTool(...).run() with MCP_INSTANCE_NAME = environ; the
\* JSON text is modelled by the dict it is dumped from
DataVisualizationRun(data_source, chart_type, time_range, environ) ==
    [chart_type |-> chart_type,
     data_source |-> data_source,
     time_range |-> time_range,
     instance |-> InstanceName(environ),
     mock_visualization |->
        "[Visualization of " \o data_source \o " data as a " \o chart_type
            \o " chart over " \o time_range \o " intervals]"]

Called(name, input, environ, result) ==
    /\ Len(calls) < MaxCalls
    /\ calls' = Append(calls, [tool |-> name, input |-> input, environ |-> environ,
                               result |-> result])
    /\ UNCHANGED << searchVars, serverVars, concurrentVars >>

RunGetSecretWord ==
    \E seed \in Seeds, environ \in InstanceNames :
        Called("GetSecretWordTool", [seed |-> seed], environ, GetSecretWordRun(seed))

RunMarketingAnalysis ==
    \E campaign_id \in CampaignIds, time_period \in TimePeriods, environ \in InstanceNames :
        Called("MarketingAnalysisTool",
               [campaign_id |-> campaign_id, time_period |-> time_period], environ,
               MarketingAnalysisRun(campaign_id, time_period))

RunDataVisualization ==
    \E data_source \in DataSources, chart_type \in ChartTypes, time_range \in TimeRanges,
       environ \in InstanceNames :
        Called("DataVisualizationTool",
               [data_source |-> data_source, chart_type |-> chart_type,
                time_range |-> time_range], environ,
               DataVisualizationRun(data_source, chart_type, time_range, environ))

\* the invocations compared so far are put aside
Forget ==
    /\ calls # << >>
    /\ calls' = << >>
    /\ UNCHANGED << searchVars, serverVars, concurrentVars >>

NextMock == RunGetSecretWord \/ RunMarketingAnalysis \/ RunDataVisualization \/ Forget

SpecMock == Init /\ [][NextMock]_vars

\* two invocations of one tool with equal input fields
SameInvocation(a, b) == a.tool = b.tool /\ a.input = b.input

\* C17 as stated: two invocations of a mock tool with equal input fields
\* return equal strings, whatever the environment of the process holds.
C17_DeterministicInInputs ==
    \A i, j \in DOMAIN calls :
        SameInvocation(calls[i], calls[j]) => calls[i].result = calls[j].result

\* C17, amended: GetSecretWordTool and MarketingAnalysisTool return equal
\* strings for equal input fields whatever the environment holds;
\* DataVisualizationTool returns equal strings for equal input fields and an
\* equal instance name, which is the value of MCP_INSTANCE_NAME, or
\* 'default' when the variable is not set, and which the output carries in
\* its field 'instance'.
C17_DeterministicInInputsAndInstance ==
    \A i, j \in DOMAIN calls :
        /\ calls[i].tool = "DataVisualizationTool" =>
              calls[i].result.instance
                  = (IF calls[i].environ = None THEN "default" ELSE calls[i].environ[1])
        /\ SameInvocation(calls[i], calls[j]) =>
              IF calls[i].tool = "DataVisualizationTool"
                  THEN (calls[i].result.instance = calls[j].result.instance)
                            <=> (calls[i].result = calls[j].result)
              ELSE calls[i].result = calls[j].result

\* C17 happens: DataVisualizationTool ran twice with equal fields, once
\* without MCP_INSTANCE_NAME and once with MCP_INSTANCE_NAME=default, and
\* returned the same text
C17_Witness ==
    /\ Len(calls) = 2
    /\ calls[1].tool = "DataVisualizationTool"
    /\ SameInvocation(calls[1], calls[2])
    /\ calls[1].environ = None
    /\ calls[2].environ = Some("default")
    /\ calls[1].result = calls[2].result

----------------------------------------------------------------------------
(* The reference pipeline of the post-processing *)

\* the records the provider answered with; none when it failed or was not asked
AnsweredRecords ==
    IF tool = "youtube"
        THEN (IF observed[2].kind = "ok" THEN observed[2].items ELSE << >>)
    ELSE (IF observed[1].kind = "ok" THEN observed[1].data ELSE << >>)

CounterNames ==
    IF tool = "youtube" THEN {"viewCount", "likeCount", "commentCount"}
    ELSE {"like_count", "retweet_count", "reply_count", "quote_count"}

\* the number a counter of the record stands for; a missing counter is 0
CounterValue(rec, k) ==
    IF k \notin DOMAIN rec.metrics THEN 0
    ELSE IF tool = "youtube" THEN DecimalValue(rec.metrics[k])
    ELSE rec.metrics[k]

\* every counter the record carries is a number
HasScore(rec) ==
    \A k \in CounterNames \cap DOMAIN rec.metrics :
        tool = "youtube" =>
            /\ rec.metrics[k] # << >>
            /\ \A i \in DOMAIN rec.metrics[k] : IsDigit(rec.metrics[k][i])

RECURSIVE SumOver(_, _)
SumOver(rec, names) ==
    IF names = {} THEN 0
    ELSE LET k == CHOOSE x \in names : TRUE
         IN CounterValue(rec, k) + SumOver(rec, names \ {k})

\* the engagement score: the sum of the public counters
ScoreOf(rec) == SumOver(rec, CounterNames)

\* step 1: the records that have a score and meet the threshold, if one is given
RefKept(records, t) ==
    SelectSeq(records,
              LAMBDA rec : HasScore(rec)
                             /\ (IF IsNone(t) THEN TRUE ELSE ScoreOf(rec) >= Val(t)))

\* the place of the i-th record after a stable sort by score, descending
RefRank(kept, i) ==
    1 + Cardinality({ j \in DOMAIN kept :
                        \/ ScoreOf(kept[j]) > ScoreOf(kept[i])
                        \/ ScoreOf(kept[j]) = ScoreOf(kept[i]) /\ j < i })

\* step 2
RefSorted(kept) ==
    [p \in DOMAIN kept |-> kept[CHOOSE i \in DOMAIN kept : RefRank(kept, i) = p]]

\* filter, stable sort, truncate
ReferencePipeline(records, t, m) == Prefix(RefSorted(RefKept(records, t)), m)

\* what the comparison looks at: which record, with which score
RefView(records) == [i \in DOMAIN records |-> << records[i].id, ScoreOf(records[i]) >>]
ItemView(items) == [i \in DOMAIN items |-> << items[i].id, Key(items[i]) >>]

\* the invocation returned its envelope of results, not an error envelope
ReturnedResults == ReturnedEnvelope /\ ~IsErrorEnvelope(outcome.envelope)

\* C18: for every search tool and provider response the returned item list
\* is the reference pipeline applied to the provider's records: keep the
\* records whose score meets the threshold, sort them by score descending,
\* equal scores in provider order, and truncate to max_results.
C18_ReferencePipeline ==
    ReturnedResults =>
        ItemView(ReturnedItems)
            = RefView(ReferencePipeline(AnsweredRecords, min_engagement_threshold,
                                        max_results))

\* C19: a query that passed validation is sent to the provider in at most
\* 512 characters by TwitterSearchTool (with ' lang:en -is:retweet' when the
\* query has at most 492 characters, with ' lang:en' alone up to 504, as
\* it is above that) and in at most 88 characters by TwitterSearchLiteTool
\* (the first 80 of the stripped query, with or without ' lang:en').
C19_QueryLength ==
    SearchSent =>
        /\ tool = "twitter" =>
              /\ Len(SentQuery) <= 512
              /\ Len(topic_or_keywords) <= 492 =>
                    SentQuery = topic_or_keywords \o LangEn \o NoRetweets
              /\ Len(topic_or_keywords) \in 493..504 =>
                    SentQuery = topic_or_keywords \o LangEn
              /\ Len(topic_or_keywords) \in 505..512 => SentQuery = topic_or_keywords
        /\ tool = "lite" =>
              /\ Len(SentQuery) <= 88
              /\ \/ SentQuery = Prefix(Strip(topic_or_keywords), 80)
                 \/ SentQuery = Prefix(Strip(topic_or_keywords), 80) \o LangEn

\* C19 happens: TwitterSearchTool sent a query of 504 characters with the
\* language filter alone, 512 characters in all
C19_Witness ==
    /\ SearchSent
    /\ tool = "twitter"
    /\ Len(topic_or_keywords) = 504
    /\ Len(SentQuery) = 512

\* C19 happens in the lite tool: a query of 100 characters went out as 88
C19_LiteWitness ==
    /\ SearchSent
    /\ tool = "lite"
    /\ Len(topic_or_keywords) = 100
    /\ Len(SentQuery) = 88

----------------------------------------------------------------------------
(* Properties of the time window *)

\* the instant a timestamp of a request names; one without a fraction names
\* the whole second
InstantOf(timestamp) ==
    [s |-> timestamp.date_time,
     us |-> IF timestamp.fraction = << >> THEN 0 ELSE timestamp.fraction[1]]

Earlier(a, b) == a.s < b.s \/ (a.s = b.s /\ a.us < b.us)

UpperBound == InstantOf(requests[1].end_time)
LowerBound == InstantOf(requests[1].start_time)

\* the lookback of the tool in seconds: 6.5 days, 3 days, 7 days
LookbackSeconds ==
    IF tool = "twitter" THEN 561600 ELSE IF tool = "lite" THEN 259200 ELSE 604800

\* C20 as stated: in every search tool the upper bound of the window sent
\* is strictly earlier than the instant the invocation read as now, and the
\* lower bound is the upper bound minus the lookback of the tool.
C20_UpperBoundBeforeNow ==
    SearchSent =>
        /\ Earlier(UpperBound, Val(now))
        /\ UpperBound # Val(now)
        /\ LowerBound = MinusSeconds(UpperBound, LookbackSeconds)

\* C20, amended: the Twitter tools send as upper bound the instant read as
\* now minus 30 seconds; YouTubeSearchTool sends now itself, cut to whole
\* seconds, which is never later than now and equals now when now falls on
\* a whole second; in every tool the lower bound is the upper bound minus
\* the lookback.
C20_TimeWindow ==
    SearchSent =>
        /\ tool \in {"twitter", "lite"} => UpperBound = MinusSeconds(Val(now), 30)
        /\ tool = "youtube" =>
              /\ UpperBound = [Val(now) EXCEPT !.us = 0]
              /\ ~Earlier(Val(now), UpperBound)
        /\ LowerBound = MinusSeconds(UpperBound, LookbackSeconds)

\* C20 happens: YouTubeSearchTool read now on a whole second and sent it as
\* the upper bound of a window of seven days
C20_Witness ==
    /\ SearchSent
    /\ tool = "youtube"
    /\ Val(now).us = 0
    /\ UpperBound = Val(now)
    /\ LowerBound.s = UpperBound.s - 604800

----------------------------------------------------------------------------
(* Concurrent invocations of the search tools: one step per access to what
   the invocations could share (os.environ, the clock, the provider) *)

Invocations == 1..MaxInvocations

\* the arguments of the concurrent invocations
ConcurrentArgs ==
    { [tool |-> "twitter", q |-> << "a" >>, m |-> 10, t |-> Some(10)],
      [tool |-> "twitter", q |-> << "a" >>, m |-> 10, t |-> None],
      [tool |-> "lite", q |-> << "a" >>, m |-> 10, t |-> Some(10)],
      [tool |-> "youtube", q |-> << "a" >>, m |-> 10, t |-> Some(10)],
      [tool |-> "youtube", q |-> << " " >>, m |-> 10, t |-> None] }

\* the environment of the serving process: no credential, or both
Environments ==
    { [TWITTER_BEARER_TOKEN |-> c, YOUTUBE_API_KEY |-> c] : c \in {None, Some("token")} }

\* what the provider may answer a concurrent invocation
ConcurrentTweets ==
    { [kind |-> "ok",
       data |-> Records(<< [like_count |-> 5], [like_count |-> 30, retweet_count |-> 20],
                           [like_count |-> 10, retweet_count |-> 4, reply_count |-> 3,
                            quote_count |-> 3] >>)],
      [kind |-> "ok", data |-> Records(<< [like_count |-> 30, retweet_count |-> 20] >>)],
      [kind |-> "raise", exc |-> Exc("Unauthorized", "401 Unauthorized")] }

ConcurrentSearches ==
    { [kind |-> "ok", items |-> << [videoId |-> 1] >>],
      [kind |-> "ok", items |-> << >>],
      [kind |-> "raise", exc |-> HttpExc("json_error_message")] }

ConcurrentVideos ==
    { [kind |-> "ok", items |-> Records(<< [viewCount |-> << "4", "0" >>,
                                           likeCount |-> << "1", "0" >>] >>)],
      [kind |-> "raise", exc |-> HttpExc("json_error_message")] }

\* every run() works on one memory for all invocations
Slot_Shared(i) == 1

\* where the instance and the locals of invocation i live: each call of
\* run() has its own `self` and its own local variables
Slot(i) == i

CredentialName(name) ==
    IF name = "youtube" THEN "YOUTUBE_API_KEY" ELSE "TWITTER_BEARER_TOKEN"

\* the instance the runtime builds from the arguments, its locals unset
FrameOf(args) ==
    [tool |-> args.tool, q |-> args.q, m |-> args.m, t |-> args.t,
     token |-> None, clock |-> None, data |-> << >>, ids |-> << >>]

\* the memory after the runtime built the instances in the order 1, 2, ...
NewFrames(args) ==
    [s \in Invocations |->
        LET writers == { i \in Invocations : Slot(i) = s }
        IN IF writers = {} THEN FrameOf(args[s])
           ELSE FrameOf(args[CHOOSE i \in writers : \A j \in writers : j <= i])]

\* another invocation is between its first and its last step
OthersRunning(i) ==
    \E j \in DOMAIN threads :
        j # i /\ threads[j].pc \in {"window", "search", "videos", "process"}

\* invocation i moves to `position`; the harness notes what the provider
\* answered and whether another invocation was under way
Moved(i, position, seen, clock, result) ==
    threads' = [threads EXCEPT ![i] =
                  [@ EXCEPT !.pc = position, !.seen = seen, !.clock = clock,
                            !.result = result,
                            !.overlapped = @ \/ OthersRunning(i)]]

\* the runtime receives MaxInvocations calls and builds an instance for each
StartInvocations ==
    /\ threads = << >>
    /\ \E env \in Environments, args \in [Invocations -> ConcurrentArgs] :
         /\ os_environ' = env
         /\ threads' = [i \in Invocations |->
                          [tool |-> args[i].tool, q |-> args[i].q, m |-> args[i].m,
                           t |-> args[i].t, pc |-> "run", seen |-> << NoCall, NoCall >>,
                           clock |-> None, result |-> [kind |-> "none"],
                           overlapped |-> FALSE]]
         /\ frames' = NewFrames(args)
    /\ UNCHANGED << searchVars, serverVars, mockVars >>

\* Steps 1 and 2 of run(): validation, then os.getenv of the credential
StepEarly ==
    \E i \in DOMAIN threads :
    /\ threads[i].pc = "run"
    /\ LET self == frames[Slot(i)]
           token == os_environ[CredentialName(self.tool)]
           early == IF self.tool = "twitter" THEN TwitterEarly(self.q, self.m, self.t, token)
                    ELSE IF self.tool = "lite" THEN LiteEarly(self.q, self.m, self.t, token)
                    ELSE YouTubeEarly(self.q, token)
       IN IF ~IsNone(early)
              THEN /\ Moved(i, "done", threads[i].seen, threads[i].clock,
                            Returned(Val(early)))
                   /\ frames' = frames
          ELSE /\ Moved(i, "window", threads[i].seen, threads[i].clock, threads[i].result)
               /\ frames' = [frames EXCEPT ![Slot(i)].token = token]
    /\ UNCHANGED << os_environ, searchVars, serverVars, mockVars >>

\* the client is built and datetime.now() is read for the window
StepWindow ==
    \E i \in DOMAIN threads :
    /\ threads[i].pc = "window"
    /\ \E c \in ClockValues :
         /\ Moved(i, "search", threads[i].seen, Some(c), threads[i].result)
         /\ frames' = [frames EXCEPT ![Slot(i)].clock = Some(c)]
    /\ UNCHANGED << os_environ, searchVars, serverVars, mockVars >>

\* the search request and the provider's answer to it
StepSearch ==
    \E i \in DOMAIN threads :
    /\ threads[i].pc = "search"
    /\ LET self == frames[Slot(i)] IN
       IF self.tool = "youtube" THEN
           \E search \in ConcurrentSearches :
               LET seen == << search, NoCall >> IN
               IF search.kind = "raise" THEN
                   /\ Moved(i, "done", seen, threads[i].clock,
                            YouTubeHandler(search.exc, self.q))
                   /\ frames' = frames
               ELSE IF search.items = << >> THEN
                   /\ Moved(i, "done", seen, threads[i].clock,
                            Returned([query |-> self.q, total_results |-> 0,
                                      search_metadata |->
                                         YouTubeMetadata(self.q, self.t, 100),
                                      videos |-> << >>]))
                   /\ frames' = frames
               ELSE
                   /\ Moved(i, "videos", seen, threads[i].clock, threads[i].result)
                   /\ frames' = [frames EXCEPT ![Slot(i)].ids =
                                    [k \in DOMAIN search.items |-> search.items[k].videoId]]
       ELSE
           \E prov \in ConcurrentTweets :
               /\ Moved(i, "process", << prov, NoCall >>, threads[i].clock,
                        threads[i].result)
               /\ frames' = [frames EXCEPT ![Slot(i)].data =
                                IF self.tool = "twitter" THEN SearchTweets(prov)
                                ELSE SearchTweetsLite(prov)]
    /\ UNCHANGED << os_environ, searchVars, serverVars, mockVars >>

\* YouTubeSearchTool: the detail request and the provider's answer to it
StepVideos ==
    \E i \in DOMAIN threads :
    /\ threads[i].pc = "videos"
    /\ \E videos \in ConcurrentVideos :
         LET seen == << threads[i].seen[1], videos >> IN
         IF videos.kind = "raise" THEN
             /\ Moved(i, "done", seen, threads[i].clock,
                      YouTubeHandler(videos.exc, frames[Slot(i)].q))
             /\ frames' = frames
         ELSE
             /\ Moved(i, "process", seen, threads[i].clock, threads[i].result)
             /\ frames' = [frames EXCEPT ![Slot(i)].data = videos.items]
    /\ UNCHANGED << os_environ, searchVars, serverVars, mockVars >>

\* the records are scored, filtered, sorted and cut, and the envelope returned
StepProcess ==
    \E i \in DOMAIN threads :
    /\ threads[i].pc = "process"
    /\ LET self == frames[Slot(i)]
           envelope ==
               IF self.tool = "twitter" THEN
                   LET final_tweets ==
                           TwitterLimit(TwitterFilter(ProcessTweets(self.data), self.t),
                                        self.m)
                   IN [query |-> self.q, total_results |-> Len(final_tweets),
                       search_metadata |-> TwitterMetadata(self.q, self.t),
                       tweets |-> final_tweets]
               ELSE IF self.tool = "lite" THEN
                   LET processed_tweets ==
                           LiteFilter(ProcessTweetsLite(self.data), self.t)
                   IN [query |-> self.q, quota_used |-> Len(self.data),
                       total_results |-> Len(processed_tweets),
                       search_metadata |->
                          [time_range |-> "last_3_days",
                           lite_query |-> CreateLiteQuery(self.q),
                           engagement_threshold |-> self.t,
                           quota_warning |-> "Used " \o ToString(Len(self.data))
                                                \o " posts from your monthly quota"],
                       tweets |-> processed_tweets]
               ELSE
                   LET videos_data ==
                           YouTubeLimit(SortAndFilterVideos(ProcessVideos(self.data),
                                                            self.t), self.m)
                   IN [query |-> self.q, total_results |-> Len(videos_data),
                       search_metadata |->
                          YouTubeMetadata(self.q, self.t, 100 + Len(self.ids)),
                       videos |-> videos_data]
       IN Moved(i, "done", threads[i].seen, threads[i].clock, Returned(envelope))
    /\ UNCHANGED << os_environ, frames, searchVars, serverVars, mockVars >>

\* every caller has its answer
Collect ==
    /\ threads # << >>
    /\ \A i \in DOMAIN threads : threads[i].pc = "done"
    /\ os_environ' = [TWITTER_BEARER_TOKEN |-> None, YOUTUBE_API_KEY |-> None]
    /\ threads' = << >>
    /\ frames' = << >>
    /\ UNCHANGED << searchVars, serverVars, mockVars >>

NextConcurrent ==
    \/ StartInvocations
    \/ StepEarly
    \/ StepWindow
    \/ StepSearch
    \/ StepVideos
    \/ StepProcess
    \/ Collect

SpecConcurrent == Init /\ [][NextConcurrent]_vars

\* what invocation i returns when it runs alone with the same arguments,
\* environment, clock and provider answers
Alone(i) ==
    LET th == threads[i]
        token == os_environ[CredentialName(th.tool)]
    IN IF th.tool = "twitter"
           THEN TwitterRun(th.q, th.m, th.t, token, th.seen[1], th.clock).outcome
       ELSE IF th.tool = "lite"
           THEN LiteRun(th.q, th.m, th.t, token, th.seen[1], th.clock).outcome
       ELSE YouTubeRun(th.q, th.m, th.t, token, th.seen[1], th.seen[2], th.clock).outcome

\* C22: in every interleaving of concurrent invocations of the search
\* tools, of one tool or of several, what an invocation returns is what it
\* returns when it runs alone with the same provider answers and
\* environment; and the instance an unfinished invocation works on holds
\* its own arguments, untouched by the others.
C22_Independent ==
    \A i \in DOMAIN threads :
        /\ threads[i].pc = "done" => threads[i].result = Alone(i)
        /\ threads[i].pc # "done" =>
              /\ frames[Slot(i)].tool = threads[i].tool
              /\ frames[Slot(i)].q = threads[i].q
              /\ frames[Slot(i)].t = threads[i].t

\* C22 happens: two invocations of TwitterSearchTool ran interleaved, the
\* provider answered them differently, and each returned its own records
C22_Witness ==
    /\ Len(threads) >= 2
    /\ threads[1].tool = "twitter" /\ threads[2].tool = "twitter"
    /\ threads[1].pc = "done" /\ threads[2].pc = "done"
    /\ threads[1].overlapped /\ threads[2].overlapped
    /\ threads[1].seen[1].kind = "ok" /\ threads[2].seen[1].kind = "ok"
    /\ threads[1].seen # threads[2].seen
    /\ threads[1].result.envelope.total_results = 2
    /\ threads[2].result.envelope.total_results = 1


====
